---- MODULE Spec2Model ----
(***************************************************************************)
(* Front-end search controllers of the National Repository scripts.        *)
(*                                                                         *)
(* A page runs one of the scripts; variant says which:                     *)
(*   "part_000"  src/unnamed/part_000, the smartSearch script: cached-first *)
(*               search, a time-gated background incremental harvest and   *)
(*               the refresh search that follows it;                       *)
(*   "script.js" the first script of src/script.js (lines 1-346): search   *)
(*               as you type, debounced;                                   *)
(*   "part_001"  src/unnamed/part_001, the two-phase script: a cached      *)
(*               search, then a live search and a refresh.                 *)
(* Definitions of script.js end in _js, those of part_001 in _001.         *)
(*                                                                         *)
(* Every action is one run of an event handler, of a timer callback or of  *)
(* the continuation of an await, over the single-threaded browser event    *)
(* loop: requests in flight are kept in bags, and a response may arrive    *)
(* for any of them, in any order.  The backend answers from a fixed table. *)
(*                                                                         *)
(* Strings the code transforms (the search box text) are sequences of      *)
(* one-character strings, so that trim() is computed.                      *)
(***************************************************************************)
EXTENDS Integers, Sequences, FiniteSets, Bags, TLC

(* ------------------------------ bounds --------------------------------- *)
MaxUserActions == 2
MaxTicks == 1
MaxUserActions_js == 3

(* --------------------------- program constants -------------------------- *)
PAGE_SIZE == 24
HARVEST_INTERVAL == 30 * 60 * 1000

(* --------------------------- environment values ------------------------- *)
\* The clock advances in steps of HARVEST_INTERVAL; the page is loaded long
\* after the epoch, and the server may have harvested shortly before that.
TimeStep == HARVEST_INTERVAL
LoadTime == 2 * HARVEST_INTERVAL
MaxTime == LoadTime + MaxTicks * TimeStep
ServerLastHarvest == LoadTime - HARVEST_INTERVAL \div 2

Categories == {"all", "elis"}
BoxValues == {<< >>, <<" ">>, <<" ", "a", " ">>}
NoFilters == << >>
FilterChoices ==
  {[year |-> y, repository |-> "", type |-> "", author |-> ""] : y \in {"2020"}}
NewRecordCounts == {0, 3}
SearchFailures == {"http", "appFailure", "malformed"}
NoKey == [category |-> "none"]

VARIABLES
  currentCategory,   \* part_000:4
  currentQuery,      \* part_000:5
  currentPage,       \* part_000:6
  currentFilters,    \* part_000:7
  totalPages,        \* part_000:8
  lastHarvestTime,   \* part_000:10
  now,               \* Date.now()
  nextAutoHarvest,   \* due time of the setInterval auto-harvest timer
  display,           \* content of #dataCardsContainer
  pagination,        \* #pagination, #prevBtn, #nextBtn
  filtersSidebar,    \* #filtersSidebar shown, #applyFilters present, #fltYear options
  searchReqs,        \* /harvest and /elis-live-search requests in flight
  harvestReqs,       \* /harvest-incremental requests in flight
  latestIssued,      \* the search request issued last
  userActions,       \* number of user actions so far
  variant,           \* the script the page runs
  totalResults,      \* script.js:6, part_001:6
  searchInput,       \* #searchInput.value
  yearFilter,        \* #yearFilter.value
  institutionFilter, \* #institutionFilter.value
  filterOptions,     \* the selects hold the options of /filters
  timers,            \* the browser's pending setTimeout timers
  debounceT,         \* t of the debounce closure: script.js:28, part_001:338
  loads,             \* load-time fetches in flight
  isLiveSearching,   \* part_001:7
  liveReqs,          \* /live-search requests in flight
  burst              \* the keystrokes since the debounced call last ran

vars == <<currentCategory, currentQuery, currentPage, currentFilters, totalPages,
          lastHarvestTime, now, nextAutoHarvest, display, pagination,
          filtersSidebar, searchReqs, harvestReqs, latestIssued, userActions,
          variant, totalResults, searchInput, yearFilter, institutionFilter,
          filterOptions, timers, debounceT, loads, isLiveSearching, liveReqs,
          burst>>

\* The program state as one value, threaded through the code of a handler.
\* out is the record of what the handler run did, in order; it is not part
\* of the state.
State ==
  [currentCategory |-> currentCategory, currentQuery |-> currentQuery,
   currentPage |-> currentPage, currentFilters |-> currentFilters,
   totalPages |-> totalPages, lastHarvestTime |-> lastHarvestTime, now |-> now,
   nextAutoHarvest |-> nextAutoHarvest, display |-> display,
   pagination |-> pagination, filtersSidebar |-> filtersSidebar,
   searchReqs |-> searchReqs, harvestReqs |-> harvestReqs,
   latestIssued |-> latestIssued, userActions |-> userActions,
   variant |-> variant, totalResults |-> totalResults,
   searchInput |-> searchInput, yearFilter |-> yearFilter,
   institutionFilter |-> institutionFilter, filterOptions |-> filterOptions,
   timers |-> timers, debounceT |-> debounceT, loads |-> loads,
   isLiveSearching |-> isLiveSearching, liveReqs |-> liveReqs,
   burst |-> burst, out |-> << >>]

Commit(s) ==
  /\ currentCategory' = s.currentCategory
  /\ currentQuery' = s.currentQuery
  /\ currentPage' = s.currentPage
  /\ currentFilters' = s.currentFilters
  /\ totalPages' = s.totalPages
  /\ lastHarvestTime' = s.lastHarvestTime
  /\ now' = s.now
  /\ nextAutoHarvest' = s.nextAutoHarvest
  /\ display' = s.display
  /\ pagination' = s.pagination
  /\ filtersSidebar' = s.filtersSidebar
  /\ searchReqs' = s.searchReqs
  /\ harvestReqs' = s.harvestReqs
  /\ latestIssued' = s.latestIssued
  /\ userActions' = s.userActions
  /\ variant' = s.variant
  /\ totalResults' = s.totalResults
  /\ searchInput' = s.searchInput
  /\ yearFilter' = s.yearFilter
  /\ institutionFilter' = s.institutionFilter
  /\ filterOptions' = s.filterOptions
  /\ timers' = s.timers
  /\ debounceT' = s.debounceT
  /\ loads' = s.loads
  /\ isLiveSearching' = s.isLiveSearching
  /\ liveReqs' = s.liveReqs
  /\ burst' = s.burst

(* ------------------------------ helpers -------------------------------- *)
Emit(s, e) == [s EXCEPT !.out = Append(@, e)]
Has(s, e) == \E i \in 1..Len(s.out) : s.out[i] = e
Count(s, e) == Cardinality({i \in 1..Len(s.out) : s.out[i] = e})
Before(s, a, b) == \E i, j \in 1..Len(s.out) : i < j /\ s.out[i] = a /\ s.out[j] = b

One(x) == SetToBag({x})

Min(a, b) == IF a < b THEN a ELSE b
Max(a, b) == IF a > b THEN a ELSE b

\* Math.floor in the place of Math.ceil
CeilAsFloor(a, b) == a \div b

\* Math.ceil(a / b) for a >= 0, b > 0
Ceil(a, b) == (a + b - 1) \div b

RECURSIVE TrimStart(_)
TrimStart(v) == IF v # << >> /\ Head(v) = " " THEN TrimStart(Tail(v)) ELSE v

RECURSIVE TrimEnd(_)
TrimEnd(v) ==
  IF v # << >> /\ v[Len(v)] = " " THEN TrimEnd(SubSeq(v, 1, Len(v) - 1)) ELSE v

\* String.prototype.trim
Trim(v) == TrimEnd(TrimStart(v))

(* ------------------------------ backend -------------------------------- *)
\* The records the backend holds for a request: a fixed table, so that the
\* result set a request queries is well defined.
BackendTotal(req) ==
  CASE req.category = "all" /\ req.query = << >> /\ req.filters = NoFilters -> 25
    [] req.category = "all" /\ req.query = << >> -> 24
    [] req.category = "elis" /\ req.query # << >> -> 30
    [] OTHER -> 0

\* data.facets of the response to req: /harvest supplies the years found
\* among the matching records, /elis-live-search supplies no facets.
Facets(req) ==
  IF req.url = "harvest"
    THEN [given |-> TRUE,
          years |-> CASE BackendTotal(req) = 25 -> {"2020", "2021"}
                      [] BackendTotal(req) = 24 -> {"2020"}
                      [] OTHER -> {}]
    ELSE [given |-> FALSE, years |-> {}]

\* Number of records on the requested page.
PageLength(req) ==
  Max(0, Min(PAGE_SIZE, BackendTotal(req) - (req.page - 1) * PAGE_SIZE))

KeyOf(req) ==
  [category |-> req.category, query |-> req.query, page |-> req.page,
   filters |-> req.filters]

(* ------------------------------ rendering ------------------------------ *)
Panel(kind, key, tryElis) == [kind |-> kind, key |-> key, tryElis |-> tryElis]

renderElisIdleState(s) ==
  Emit([s EXCEPT !.display = Panel("idle", NoKey, FALSE),
                 !.pagination.shown = FALSE], "idle")

showLoadingState(s) ==
  Emit([s EXCEPT !.display = Panel("loading", NoKey, FALSE)], "loading")

renderError(s) ==
  Emit([s EXCEPT !.display = Panel("error", NoKey, FALSE),
                 !.pagination.shown = FALSE], "error")

\* records: the page of results answering req
renderResults(s, req, isLiveSearch) ==
  IF PageLength(req) = 0
    THEN Emit([s EXCEPT !.display = Panel("noresults", KeyOf(req),
                                          ~isLiveSearch /\ s.currentQuery # << >>),
                        !.pagination.shown = FALSE], "results")
    ELSE Emit([s EXCEPT !.display = Panel("results", KeyOf(req), FALSE),
                        !.pagination.shown = TRUE], "results")

\* the options of the response added to those already shown
renderFiltersMerged(s, req) ==
  IF Facets(req).given
    THEN Emit([s EXCEPT !.filtersSidebar.applyBtn = TRUE,
                        !.filtersSidebar.years = @ \cup Facets(req).years],
              "filters")
    ELSE s

\* renderFilters(data.facets): nothing is done when the response has no
\* facets; otherwise #filtersWrap is rebuilt from them.
renderFilters(s, req) ==
  IF Facets(req).given
    THEN Emit([s EXCEPT !.filtersSidebar.applyBtn = TRUE,
                        !.filtersSidebar.years = Facets(req).years], "filters")
    ELSE s

updatePagination(s, page, computedTotalPages) ==
  LET tp == IF computedTotalPages = 0 THEN 1 ELSE computedTotalPages
  IN Emit([s EXCEPT !.currentPage = page,
                    !.totalPages = tp,
                    !.pagination.prevDisabled = (page <= 1),
                    !.pagination.nextDisabled = (page >= tp)], "pagination")

(* --------------------------- harvest gate ------------------------------ *)
\* the interval taken as 30 seconds: 30 * 1000
GateClosedSeconds(t, last) == t - last < 30 * 1000

GateClosed(t, last) == t - last < HARVEST_INTERVAL

\* The synchronous part of triggerAutoHarvest, up to the fetch.  The field
\* "by" of the request is not sent: it records, for a harvest started by a
\* search, the search whose results were rendered just before.
triggerAutoHarvest(s, category, refreshAfter) ==
  IF GateClosed(s.now, s.lastHarvestTime)
    THEN Emit(s, "return:skipped")
    ELSE Emit([s EXCEPT !.harvestReqs =
                          @ (+) One([category |-> category,
                                     refreshAfter |-> refreshAfter,
                                     now |-> s.now,
                                     by |-> IF refreshAfter
                                              THEN s.display.key
                                              ELSE NoKey])],
              "send:harvest-incremental")

(* ------------------------------ smartSearch ---------------------------- *)
\* the test of the query inverted
ElisIdleInverted(s) == s.currentCategory = "elis" /\ s.currentQuery # << >>

ElisIdle(s) == s.currentCategory = "elis" /\ s.currentQuery = << >>

SearchRequest(s, runHarvest) ==
  IF s.currentCategory = "elis"
    THEN [url |-> "elis-live-search", category |-> "elis",
          query |-> s.currentQuery, page |-> s.currentPage,
          filters |-> NoFilters, runHarvest |-> runHarvest]
    ELSE [url |-> "harvest", category |-> s.currentCategory,
          query |-> s.currentQuery, page |-> s.currentPage,
          filters |-> s.currentFilters, runHarvest |-> runHarvest]

\* smartSearch up to its await of the fetch.
smartSearch(s, page, runHarvest) ==
  LET s1 == Emit([s EXCEPT !.currentPage = page],
                 IF runHarvest THEN "smartSearch" ELSE "smartSearch:noHarvest")
  IN IF ElisIdle(s1)
       THEN [renderElisIdleState(s1) EXCEPT !.filtersSidebar.shown = FALSE]
       ELSE LET s2 == showLoadingState(s1)
                req == SearchRequest(s2, runHarvest)
            IN Emit([s2 EXCEPT !.searchReqs = @ (+) One(req),
                               !.latestIssued = KeyOf(req)],
                    "send:" \o req.url)

\* the harvest triggered before the results are rendered
SearchSucceededHarvestFirst(s, req) ==
  LET s0 == IF req.runHarvest /\ s.currentCategory # "elis"
              THEN triggerAutoHarvest(s, s.currentCategory, TRUE)
              ELSE s
      s1 == renderResults(s0, req, s0.currentCategory = "elis")
      s2 == IF s1.currentCategory # "elis"
              THEN [renderFilters(s1, req) EXCEPT !.filtersSidebar.shown = TRUE]
              ELSE [s1 EXCEPT !.filtersSidebar.shown = FALSE]
  IN updatePagination(s2, req.page, Ceil(BackendTotal(req), PAGE_SIZE))

\* the category tested is that of the request, not the current one
SearchSucceededRequestCategory(s, req) ==
  LET s1 == renderResults(s, req, s.currentCategory = "elis")
      s2 == IF s1.currentCategory # "elis"
              THEN [renderFilters(s1, req) EXCEPT !.filtersSidebar.shown = TRUE]
              ELSE [s1 EXCEPT !.filtersSidebar.shown = FALSE]
      totalRecords == BackendTotal(req)
      s3 == updatePagination(s2, req.page, Ceil(totalRecords, PAGE_SIZE))
  IN IF req.runHarvest /\ req.category # "elis"
       THEN triggerAutoHarvest(s3, s3.currentCategory, TRUE)
       ELSE s3

\* smartSearch from the arrival of a successful response to its end.
SearchSucceeded(s, req) ==
  LET s1 == renderResults(s, req, s.currentCategory = "elis")
      s2 == IF s1.currentCategory # "elis"
              THEN [renderFilters(s1, req) EXCEPT !.filtersSidebar.shown = TRUE]
              ELSE [s1 EXCEPT !.filtersSidebar.shown = FALSE]
      totalRecords == BackendTotal(req)
      s3 == updatePagination(s2, req.page, Ceil(totalRecords, PAGE_SIZE))
  IN IF req.runHarvest /\ s3.currentCategory # "elis"
       THEN triggerAutoHarvest(s3, s3.currentCategory, TRUE)
       ELSE s3

\* the harvest started from the catch block as well
SearchFailedHarvests(s, failure) ==
  LET s1 == renderError(s)
  IN IF s1.currentCategory # "elis"
       THEN triggerAutoHarvest(s1, s1.currentCategory, TRUE)
       ELSE s1

\* smartSearch from a failed fetch, a response with success false or a
\* response without a results array, to its end: the catch block.
\* SearchFailed without the renderError of the catch block.
SearchFailedSilent(s, failure) == s

SearchFailed(s, failure) == renderError(s)

(* ------------------------------- actions ------------------------------- *)
Smart == variant = "part_000"

\* The user acts (a click, a change, a keystroke) a bounded number of times.
CanAct ==
  userActions < (IF variant = "script.js" THEN MaxUserActions_js
                                           ELSE MaxUserActions)

\* A handler run started by the user.
User == [State EXCEPT !.userActions = @ + 1]

\* #searchBtn click, Enter in #searchBox
SearchSubmit ==
  \E v \in BoxValues :
    /\ Smart /\ CanAct
    /\ Commit(smartSearch([User EXCEPT !.currentQuery = Trim(v)], 1, TRUE))

\* the search run for "elis" as for the other categories
tabClickSearches(s, c) ==
  smartSearch([s EXCEPT !.currentCategory = c, !.currentPage = 1], 1, TRUE)

\* The click listener of the tab of category c.
tabClick(s, c) ==
  LET s1 == [s EXCEPT !.currentCategory = c, !.currentPage = 1]
  IN IF c = "elis"
       THEN renderElisIdleState([s1 EXCEPT !.filtersSidebar.shown = FALSE])
       ELSE smartSearch(s1, 1, TRUE)

\* .tab click
TabClick ==
  \E c \in Categories :
    /\ Smart /\ CanAct
    /\ Commit(tabClick(User, c))

\* #clearBtn click
ClearClick ==
  /\ Smart /\ CanAct
  /\ Commit(smartSearch([User EXCEPT !.currentQuery = << >>,
                                     !.currentFilters = NoFilters], 1, TRUE))

\* the test of currentPage left out
PrevClickNoTest ==
  /\ Smart /\ CanAct
  /\ pagination.shown /\ ~pagination.prevDisabled
  /\ Commit(smartSearch(User, currentPage - 1, TRUE))

\* #prevBtn click
PrevClick ==
  /\ Smart /\ CanAct
  /\ pagination.shown /\ ~pagination.prevDisabled
  /\ currentPage > 1
  /\ Commit(smartSearch(User, currentPage - 1, TRUE))

\* #nextBtn click
NextClick ==
  /\ Smart /\ CanAct
  /\ pagination.shown /\ ~pagination.nextDisabled
  /\ currentPage < totalPages
  /\ Commit(smartSearch(User, currentPage + 1, TRUE))

\* the page left as it is
applyFiltersKeepPage(s, f) ==
  smartSearch([s EXCEPT !.currentFilters = f], s.currentPage, TRUE)

\* The onclick handler of #applyFilters; f holds the values of the four
\* filter controls.
applyFilters(s, f) == smartSearch([s EXCEPT !.currentFilters = f], 1, TRUE)

\* #applyFilters click
ApplyFilters ==
  \E f \in FilterChoices :
    /\ Smart /\ CanAct
    /\ filtersSidebar.shown /\ filtersSidebar.applyBtn
    /\ f.year \in filtersSidebar.years
    /\ Commit(applyFilters(User, f))

\* The onclick handler of the button that the no-results panel offers.
switchToEliSLiveSearch(s) ==
  renderElisIdleState([s EXCEPT !.currentCategory = "elis", !.currentPage = 1,
                                !.filtersSidebar.shown = FALSE])

\* "Try E-LIS Live Search" button of the no-results panel
SwitchToElis ==
  /\ Smart /\ CanAct
  /\ display.kind = "noresults" /\ display.tryElis
  /\ Commit(switchToEliSLiveSearch(User))

\* The response to search request req arrives and is a success.
SearchOk(req) ==
  /\ BagIn(req, searchReqs)
  /\ Commit(SearchSucceeded([State EXCEPT !.searchReqs = @ (-) One(req)], req))

\* The search request req fails.
SearchError(req, failure) ==
  /\ BagIn(req, searchReqs)
  /\ Commit(SearchFailed([State EXCEPT !.searchReqs = @ (-) One(req)], failure))

\* Outcomes of the awaited fetch of smartSearch: the fetch or res.json()
\* throws (exception), or a JSON body arrives with res.ok, data.success and
\* "data.results is an array" as given.
SearchResponses ==
  {[exception |-> e, ok |-> o, success |-> u, results |-> r] :
     e \in BOOLEAN, o \in BOOLEAN, u \in BOOLEAN, r \in BOOLEAN}

\* the test of data.results left out
FailureOfNoResultsTest(response) ==
  IF response.exception \/ ~response.ok THEN "http"
  ELSE IF ~response.success THEN "appFailure"
  ELSE "none"

\* The throw that takes smartSearch to its catch block, "none" if there is
\* none.
FailureOf(response) ==
  IF response.exception \/ ~response.ok THEN "http"
  ELSE IF ~response.success THEN "appFailure"
  ELSE IF ~response.results THEN "malformed"
  ELSE "none"

\* smartSearch from the arrival of the response to req to its end.
SearchEnds(s, req, response) ==
  IF FailureOf(response) = "none"
    THEN SearchSucceeded(s, req)
    ELSE SearchFailed(s, FailureOf(response))

SearchResponse ==
  /\ Smart
  /\ \E req \in BagToSet(searchReqs), response \in SearchResponses :
       IF FailureOf(response) = "none"
         THEN SearchOk(req)
         ELSE SearchError(req, FailureOf(response))

\* Outcomes of a /harvest-incremental request: a JSON body, or an exception
\* (network failure, or a body that is not JSON).
HarvestResults ==
  {[exception |-> FALSE, success |-> TRUE, newRecords |-> n] : n \in NewRecordCounts}
    \cup {[exception |-> FALSE, success |-> FALSE, newRecords |-> 0],
          [exception |-> TRUE, success |-> FALSE, newRecords |-> 0]}

\* the refresh search left to run the harvest again
HarvestCompletedRerun(s, h, result) ==
  IF result.exception \/ ~result.success
    THEN Emit(s, "harvest:failed")
    ELSE LET s1 == Emit([s EXCEPT !.lastHarvestTime = h.now], "harvest:done")
         IN IF h.refreshAfter /\ result.newRecords > 0
              THEN smartSearch(s1, s1.currentPage, TRUE)
              ELSE s1

\* lastHarvestTime set as soon as a JSON body arrives, whatever it says
HarvestCompletedEager(s, h, result) ==
  IF result.exception
    THEN Emit(s, "harvest:failed")
    ELSE LET s1 == Emit([s EXCEPT !.lastHarvestTime = h.now], "harvest:done")
         IN IF h.refreshAfter /\ result.success /\ result.newRecords > 0
              THEN smartSearch(s1, s1.currentPage, FALSE)
              ELSE s1

\* lastHarvestTime taken from the clock when the response arrives
HarvestCompletedAtArrival(s, h, result) ==
  IF result.exception \/ ~result.success
    THEN Emit(s, "harvest:failed")
    ELSE LET s1 == Emit([s EXCEPT !.lastHarvestTime = s.now], "harvest:done")
         IN IF h.refreshAfter /\ result.newRecords > 0
              THEN smartSearch(s1, s1.currentPage, FALSE)
              ELSE s1

\* the refresh search run for page 1
HarvestCompletedPageOne(s, h, result) ==
  IF result.exception \/ ~result.success
    THEN Emit(s, "harvest:failed")
    ELSE LET s1 == Emit([s EXCEPT !.lastHarvestTime = h.now], "harvest:done")
         IN IF h.refreshAfter /\ result.newRecords > 0
              THEN smartSearch(s1, 1, FALSE)
              ELSE s1

\* the refresh search run whatever newRecords is
HarvestCompletedAlwaysRefresh(s, h, result) ==
  IF result.exception \/ ~result.success
    THEN Emit(s, "harvest:failed")
    ELSE LET s1 == Emit([s EXCEPT !.lastHarvestTime = h.now], "harvest:done")
         IN IF h.refreshAfter
              THEN smartSearch(s1, s1.currentPage, FALSE)
              ELSE s1

\* triggerAutoHarvest from the arrival of the response to its end.
HarvestCompleted(s, h, result) ==
  IF result.exception \/ ~result.success
    THEN Emit(s, "harvest:failed")
    ELSE LET s1 == Emit([s EXCEPT !.lastHarvestTime = h.now], "harvest:done")
         IN IF h.refreshAfter /\ result.newRecords > 0
              THEN smartSearch(s1, s1.currentPage, FALSE)
              ELSE s1

\* The harvest request h ends with result.
HarvestEnds(h, result) ==
  /\ BagIn(h, harvestReqs)
  /\ Commit(HarvestCompleted([State EXCEPT !.harvestReqs = @ (-) One(h)],
                             h, result))

HarvestResponse ==
  /\ Smart
  /\ \E h \in BagToSet(harvestReqs), result \in HarvestResults :
       HarvestEnds(h, result)

\* A /health response: an exception, last_harvest "Never", or a time.
HealthResults == {"failed", "Never", "time"}

\* checkSystemHealth from the arrival of the response to its end.  A check
\* is started at load, every five minutes and after each harvest, so that
\* a response may arrive at any time.
HealthResponse ==
  /\ Smart
  /\ \E result \in HealthResults :
       IF result = "time"
         THEN Commit([State EXCEPT !.lastHarvestTime = ServerLastHarvest])
         ELSE Commit(State)

\* the harvest of the timer started with refreshAfter
autoHarvestIntervalRefresh(s) ==
  IF s.currentCategory # "elis"
    THEN triggerAutoHarvest(s, s.currentCategory, TRUE)
    ELSE s

\* The callback given to setInterval for the auto-harvest.
autoHarvestInterval(s) ==
  IF s.currentCategory # "elis"
    THEN triggerAutoHarvest(s, s.currentCategory, FALSE)
    ELSE s

\* The auto-harvest timer fires.
IntervalFire ==
  /\ Smart
  /\ now >= nextAutoHarvest
  /\ Commit(autoHarvestInterval(
       [State EXCEPT !.nextAutoHarvest = @ + HARVEST_INTERVAL]))

\* Time passes, up to the next timer that is due.
Tick ==
  /\ Smart
  /\ now + TimeStep <= MaxTime
  /\ now < nextAutoHarvest
  /\ Commit([State EXCEPT !.now = @ + TimeStep])

(* ================== script.js (first script), part_001 ================= *)
PAGE_SIZE_js == 20
DELAY_js == 450
DELAY_001 == 400
HARVEST_DELAY_001 == 1000

Js == variant = "script.js"
TwoPhase == variant = "part_001"

\* The options the /filters response puts into the two selects.
YearOptions == {"2020"}
InstitutionOptions == {"UoN"}

NoTimer == [fn |-> "none", due |-> 0]
NoBurst == [n |-> 0, at |-> 0, value |-> << >>]

\* total of the /search response to req
SearchTotal(req) ==
  CASE req.q = << >> /\ req.year = "" /\ req.institution = "" -> 45
    [] req.q = << >> -> 5
    [] req.year = "" /\ req.institution = "" -> 21
    [] OTHER -> 0

\* results.length of the /search response to req
ResultsLength(req) ==
  Max(0, Min(PAGE_SIZE_js, SearchTotal(req) - (req.page - 1) * PAGE_SIZE_js))

KeyOf_js(req) ==
  [q |-> req.q, year |-> req.year, institution |-> req.institution,
   page |-> req.page]

(* ------------------------------ rendering ------------------------------ *)
Grid(s, kind, key, msg) ==
  [s EXCEPT !.display.kind = kind, !.display.key = key, !.display.msg = msg]

setSummary(s, text) == [s EXCEPT !.display.summary = text]

renderLoading(s, msg) == Emit(Grid(s, "loading", NoKey, msg), "loading")

renderEmpty(s, msg) == Emit(Grid(s, "empty", NoKey, msg), "empty")

renderError_js(s, msg) == Emit(Grid(s, "error", NoKey, msg), "error")

renderResults_js(s, req) ==
  IF ResultsLength(req) = 0
    THEN renderEmpty(s, "Try a different keyword")
    ELSE Emit(Grid(s, "results", KeyOf_js(req), ""), "results")

renderResults_001(s, req) == Emit(Grid(s, "results", KeyOf_js(req), ""), "results")

updatePagination_js(s) ==
  IF s.totalResults <= PAGE_SIZE_js
    THEN [s EXCEPT !.pagination.shown = FALSE]
    ELSE LET pages == Max(1, Ceil(s.totalResults, PAGE_SIZE_js))
         IN Emit([s EXCEPT !.pagination =
                    [shown |-> TRUE,
                     pageInfo |-> [page |-> s.currentPage, of |-> pages],
                     prevDisabled |-> (s.currentPage <= 1),
                     nextDisabled |-> (s.currentPage >= pages)]],
                 "pagination")

updatePagination_001(s) ==
  IF s.totalResults <= PAGE_SIZE_js
    THEN [s EXCEPT !.pagination.shown = FALSE]
    ELSE LET pages == Ceil(s.totalResults, PAGE_SIZE_js)
         IN Emit([s EXCEPT !.pagination =
                    [shown |-> TRUE,
                     pageInfo |-> [page |-> s.currentPage, of |-> pages],
                     prevDisabled |-> (s.currentPage <= 1),
                     nextDisabled |-> (s.currentPage >= pages)]],
                 "pagination")

(* -------------------------------- timers ------------------------------- *)
clearTimeout(s, timer) ==
  IF BagIn(timer, s.timers) THEN [s EXCEPT !.timers = @ (-) One(timer)] ELSE s

\* the pending call left in place: no clearTimeout
debounceNoClear(s, delay) ==
  LET timer == [fn |-> "debouncedSearch", due |-> s.now + delay]
  IN Emit([s EXCEPT !.timers = @ (+) One(timer), !.debounceT = timer],
          "setTimeout")

\* A call of the function debounce returns, for fn = () => performSearch(1).
debounce(s, delay) ==
  LET s1 == clearTimeout(s, s.debounceT)
      timer == [fn |-> "debouncedSearch", due |-> s1.now + delay]
  IN Emit([s1 EXCEPT !.timers = @ (+) One(timer), !.debounceT = timer],
          "setTimeout")

\* The input event: the box now holds v.
KeyStroke(s, v) ==
  [s EXCEPT !.searchInput = v, !.currentQuery = v,
            !.burst = [n |-> @.n + 1, at |-> s.now, value |-> v]]

(* ------------------------ script.js: performSearch --------------------- *)
SearchRequest_js(s, page) ==
  [url |-> "search", q |-> Trim(s.currentQuery), year |-> s.yearFilter,
   institution |-> s.institutionFilter, page |-> page]

\* currentPage assigned before the test of the query and the filters
performSearch_jsPageFirst(s, page) ==
  LET s0 == Emit([s EXCEPT !.currentPage = page],
                 IF page = 1 THEN "performSearch(1)" ELSE "performSearch")
  IN IF Trim(s0.currentQuery) = << >> /\ s0.yearFilter = ""
          /\ s0.institutionFilter = ""
       THEN setSummary(
              [renderEmpty(s0, "Start typing") EXCEPT !.pagination.shown = FALSE],
              "Start typing")
       ELSE LET s1 == setSummary(renderLoading(s0, ""), "Searching")
                req == SearchRequest_js(s1, s1.currentPage)
            IN Emit([s1 EXCEPT !.searchReqs = @ (+) One(req),
                               !.latestIssued = KeyOf_js(req)],
                    "send:search")

\* performSearch up to its await of the fetch.
performSearch_js(s, page) ==
  LET s0 == Emit(s, IF page = 1 THEN "performSearch(1)" ELSE "performSearch")
  IN IF Trim(s0.currentQuery) = << >> /\ s0.yearFilter = ""
          /\ s0.institutionFilter = ""
       THEN setSummary(
              [renderEmpty(s0, "Start typing") EXCEPT !.pagination.shown = FALSE],
              "Start typing")
       ELSE LET s1 == setSummary(
                        renderLoading([s0 EXCEPT !.currentPage = page], ""),
                        "Searching")
                req == SearchRequest_js(s1, s1.currentPage)
            IN Emit([s1 EXCEPT !.searchReqs = @ (+) One(req),
                               !.latestIssued = KeyOf_js(req)],
                    "send:search")

\* performSearch from the arrival of the response to its end.
SearchSucceeded_js(s, req) ==
  LET s1 == [s EXCEPT !.totalResults = SearchTotal(req)]
  IN IF s1.totalResults = 0
       THEN setSummary(
              [renderEmpty(s1, "No theses match") EXCEPT !.pagination.shown = FALSE],
              "0 results")
       ELSE updatePagination_js(setSummary(renderResults_js(s1, req), "found"))

\* performSearch from a failed fetch or a body that is not JSON to its end.
SearchFailed_js(s) == setSummary(renderError_js(s, "search"), "An error occurred")

\* the three loads started after a failed auto-harvest as well
LoadStep_jsGoesOn(s, name, ok) ==
  CASE name = "auto-harvest" ->
         IF ok
           THEN [s EXCEPT !.loads = {"filters"}, !.yearFilter = "",
                          !.institutionFilter = "", !.filterOptions = FALSE]
           ELSE setSummary([s EXCEPT !.loads = {"filters"}],
                           "Could not auto-harvest")
    [] name = "filters" ->
         [s EXCEPT !.loads = {"health"}, !.filterOptions = ok]
    [] name = "health" -> [s EXCEPT !.loads = {"records"}]
    [] OTHER ->
         LET req == [q |-> << >>, year |-> "", institution |-> "", page |-> 1]
             s1 == [s EXCEPT !.loads = {}]
         IN IF ~ok
              THEN renderError_js(s1, "initial")
              ELSE IF ResultsLength(req) = 0
                THEN renderEmpty(s1, "Start typing above")
                ELSE updatePagination_js(setSummary(
                       renderResults_js(
                         [s1 EXCEPT !.totalResults = SearchTotal(req)], req),
                       "available"))

(* --------------------------- script.js: load --------------------------- *)
\* autoHarvestOnLoad from the end of a fetch to its next await, or its end.
LoadStep_js(s, name, ok) ==
  CASE name = "auto-harvest" ->
         IF ok
           THEN [s EXCEPT !.loads = {"filters"}, !.yearFilter = "",
                          !.institutionFilter = "", !.filterOptions = FALSE]
           ELSE setSummary([s EXCEPT !.loads = {}], "Could not auto-harvest")
    [] name = "filters" ->
         [s EXCEPT !.loads = {"health"}, !.filterOptions = ok]
    [] name = "health" -> [s EXCEPT !.loads = {"records"}]
    [] OTHER ->
         LET req == [q |-> << >>, year |-> "", institution |-> "", page |-> 1]
             s1 == [s EXCEPT !.loads = {}]
         IN IF ~ok
              THEN renderError_js(s1, "initial")
              ELSE IF ResultsLength(req) = 0
                THEN renderEmpty(s1, "Start typing above")
                ELSE updatePagination_js(setSummary(
                       renderResults_js(
                         [s1 EXCEPT !.totalResults = SearchTotal(req)], req),
                       "available"))

(* -------------------------- script.js: actions ------------------------- *)
\* input event of #searchInput
Input_js ==
  \E v \in BoxValues :
    /\ Js /\ CanAct
    /\ v # searchInput
    /\ Commit(debounce(KeyStroke(User, v), DELAY_js))

\* The timer of the debounced call fires: performSearch(1).
DebouncedSearch_js(s, timer) ==
  performSearch_js([s EXCEPT !.timers = @ (-) One(timer), !.burst = NoBurst], 1)

DebounceFire_js ==
  \E timer \in BagToSet(timers) :
    /\ Js
    /\ timer.fn = "debouncedSearch" /\ timer.due <= now
    /\ Commit(DebouncedSearch_js(State, timer))

\* The keydown listener of #searchInput for Enter, and the click listener of
\* #searchButton.
searchSubmit_js(s) ==
  performSearch_js([s EXCEPT !.currentQuery = s.searchInput], 1)

\* Enter in #searchInput, #searchButton click
SearchSubmit_js ==
  /\ Js /\ CanAct
  /\ Commit(searchSubmit_js(User))

\* The change listener of #yearFilter and of #institutionFilter; the control
\* holds its new value already.
filterChange_js(s) == performSearch_js(s, 1)

\* The click listener of #clearFilters.
clearFilters_js(s) ==
  performSearch_js([s EXCEPT !.yearFilter = "", !.institutionFilter = ""], 1)

\* change event of #yearFilter
YearChange_js ==
  \E y \in YearOptions \cup {""} :
    /\ Js /\ CanAct
    /\ filterOptions /\ y # yearFilter
    /\ Commit(filterChange_js([User EXCEPT !.yearFilter = y]))

\* change event of #institutionFilter
InstitutionChange_js ==
  \E i \in InstitutionOptions \cup {""} :
    /\ Js /\ CanAct
    /\ filterOptions /\ i # institutionFilter
    /\ Commit(filterChange_js([User EXCEPT !.institutionFilter = i]))

\* #clearFilters click
ClearFilters_js ==
  /\ Js /\ CanAct
  /\ Commit(clearFilters_js(User))

\* #prevPage click
PrevPage_js ==
  /\ Js /\ CanAct
  /\ pagination.shown /\ ~pagination.prevDisabled
  /\ currentPage > 1
  /\ Commit(performSearch_js(User, currentPage - 1))

\* #nextPage click
NextPage_js ==
  /\ Js /\ CanAct
  /\ pagination.shown /\ ~pagination.nextDisabled
  /\ currentPage < Ceil(totalResults, PAGE_SIZE_js)
  /\ Commit(performSearch_js(User, currentPage + 1))

\* The fetch of performSearch ends: a JSON body, or an exception.
SearchResponse_js ==
  \E req \in BagToSet(searchReqs), ok \in BOOLEAN :
    /\ Js
    /\ LET s == [State EXCEPT !.searchReqs = @ (-) One(req)]
       IN Commit(IF ok THEN SearchSucceeded_js(s, req) ELSE SearchFailed_js(s))

\* A fetch of autoHarvestOnLoad ends: a JSON body, or an exception.
LoadResponse_js ==
  \E name \in loads, ok \in BOOLEAN :
    /\ Js
    /\ Commit(LoadStep_js(State, name, ok))

(* ------------------------ part_001: the searches ----------------------- *)
\* performCachedSearch up to its await of the fetch.  It has no query
\* parameter.  thenFinally: the call is the one made when a live search has
\* completed, and the finally of that promise chain runs after it.
performCachedSearch(s, page, year, inst, thenFinally) ==
  LET req == [url |-> "search", q |-> << >>, year |-> year, institution |-> inst,
              page |-> page, cont |-> "performCachedSearch",
              thenFinally |-> thenFinally]
  IN Emit([s EXCEPT !.searchReqs = @ (+) One(req),
                    !.latestIssued = KeyOf_js(req)],
          "send:search")

\* performTwoPhaseSearch up to its await of the cached fetch.
performTwoPhaseSearch(s, q, page, year, inst) ==
  LET req == [url |-> "search", q |-> q, year |-> year, institution |-> inst,
              page |-> page, cont |-> "performTwoPhaseSearch",
              thenFinally |-> FALSE]
  IN Emit([s EXCEPT !.searchReqs = @ (+) One(req),
                    !.latestIssued = KeyOf_js(req)],
          "send:search")

\* the two-phase search run for an empty query as well
performSearch_001AlwaysTwoPhase(s, page) ==
  LET s1 == Emit([s EXCEPT !.currentPage = page],
                 IF page = 1 THEN "performSearch(1)" ELSE "performSearch")
  IN performTwoPhaseSearch(s1, Trim(s1.currentQuery), page, s1.yearFilter,
                           s1.institutionFilter)

performSearch_001(s, page) ==
  LET s1 == Emit([s EXCEPT !.currentPage = page],
                 IF page = 1 THEN "performSearch(1)" ELSE "performSearch")
      q == Trim(s1.currentQuery)
  IN IF q = << >>
       THEN performCachedSearch(s1, page, s1.yearFilter, s1.institutionFilter,
                                FALSE)
       ELSE performTwoPhaseSearch(s1, q, page, s1.yearFilter,
                                  s1.institutionFilter)

\* .finally of the live-search promise chain
LiveFinally(s) == [s EXCEPT !.isLiveSearching = FALSE]

\* performCachedSearch from the end of its fetch to its end.
CachedSearchEnds(s, req, ok) ==
  LET s1 == IF ~ok
              THEN renderError_js(s, "Search failed")
              ELSE LET s0 == [s EXCEPT !.totalResults = SearchTotal(req)]
                   IN IF s0.totalResults = 0
                        THEN [renderEmpty(s0, "No theses match")
                                EXCEPT !.pagination.shown = FALSE]
                        ELSE updatePagination_001(renderResults_001(s0, req))
  IN IF req.thenFinally THEN LiveFinally(s1) ELSE s1

\* performTwoPhaseSearch from the end of its cached fetch to its end.
TwoPhaseCachedEnds(s, req, ok) ==
  IF ~ok
    THEN renderError_js(s, "Search failed")
    ELSE LET s1 == IF ResultsLength(req) > 0
                     THEN updatePagination_001(renderResults_001(
                            [s EXCEPT !.totalResults = SearchTotal(req)], req))
                     ELSE renderLoading(s, "Searching repositories")
             live == [q |-> req.q, year |-> req.year,
                      institution |-> req.institution, page |-> req.page]
         IN Emit([s1 EXCEPT !.isLiveSearching = TRUE,
                            !.liveReqs = @ (+) One(live)],
                 "send:live-search")

\* The handlers of the live-search promise, from the end of its fetch.
LiveSearchEnds(s, live, ok) ==
  IF ok
    THEN performCachedSearch(s, live.page, live.year, live.institution, TRUE)
    ELSE LiveFinally(s)

(* ---------------------------- part_001: load --------------------------- *)
InitialLoads == {"records", "filters", "health"}

\* LoadEnds_001 as if a failed load rejected the Promise.all: no timer then.
LoadEnds_001Rejecting(s, name, ok) ==
  LET req == [q |-> << >>, year |-> "", institution |-> "", page |-> 1]
      s0 == [s EXCEPT !.loads = @ \ {name}]
      s1 == CASE name = "records" ->
                   IF ~ok
                     THEN renderError_js(s0, "initial")
                     ELSE IF ResultsLength(req) = 0
                       THEN renderEmpty(s0, "Start typing above")
                       ELSE updatePagination_001(renderResults_001(
                              [s0 EXCEPT !.totalResults = SearchTotal(req)], req))
              [] name = "filters" -> [s0 EXCEPT !.filterOptions = ok]
              [] OTHER -> s0
  IN IF name \in InitialLoads /\ ok /\ s1.loads \cap InitialLoads = {}
       THEN LET timer == [fn |-> "triggerBackgroundHarvest",
                          due |-> s1.now + HARVEST_DELAY_001]
            IN Emit([s1 EXCEPT !.timers = @ (+) One(timer)], "setTimeout")
       ELSE s1

\* One of the loads of initializeUI, or the loadHealth after the harvest,
\* from the end of its fetch to its end; then the continuation of the
\* Promise.all when it was the last one.
LoadEnds_001(s, name, ok) ==
  LET req == [q |-> << >>, year |-> "", institution |-> "", page |-> 1]
      s0 == [s EXCEPT !.loads = @ \ {name}]
      s1 == CASE name = "records" ->
                   IF ~ok
                     THEN renderError_js(s0, "initial")
                     ELSE IF ResultsLength(req) = 0
                       THEN renderEmpty(s0, "Start typing above")
                       ELSE updatePagination_001(renderResults_001(
                              [s0 EXCEPT !.totalResults = SearchTotal(req)], req))
              [] name = "filters" -> [s0 EXCEPT !.filterOptions = ok]
              [] OTHER -> s0
  IN IF name \in InitialLoads /\ s1.loads \cap InitialLoads = {}
       THEN LET timer == [fn |-> "triggerBackgroundHarvest",
                          due |-> s1.now + HARVEST_DELAY_001]
            IN Emit([s1 EXCEPT !.timers = @ (+) One(timer)], "setTimeout")
       ELSE s1

\* triggerBackgroundHarvest up to the fetch.
triggerBackgroundHarvest(s) ==
  Emit([s EXCEPT !.harvestReqs = @ (+) One([url |-> "harvest-now"])],
       "send:harvest-now")

\* The handlers of the harvest-now promise, from the end of its fetch.
BackgroundHarvestEnds(s, ok) ==
  IF ok THEN [s EXCEPT !.loads = @ \cup {"health after harvest"}] ELSE s

(* -------------------------- part_001: actions -------------------------- *)
\* input event of #searchInput
Input_001 ==
  \E v \in BoxValues :
    /\ TwoPhase /\ CanAct
    /\ v # searchInput
    /\ Commit(debounce(KeyStroke(User, v), DELAY_001))

DebouncedSearch_001(s, timer) ==
  performSearch_001([s EXCEPT !.timers = @ (-) One(timer), !.burst = NoBurst], 1)

DebounceFire_001 ==
  \E timer \in BagToSet(timers) :
    /\ TwoPhase
    /\ timer.fn = "debouncedSearch" /\ timer.due <= now
    /\ Commit(DebouncedSearch_001(State, timer))

\* The timer of initializeUI fires.
HarvestTimerFire_001 ==
  \E timer \in BagToSet(timers) :
    /\ TwoPhase
    /\ timer.fn = "triggerBackgroundHarvest" /\ timer.due <= now
    /\ Commit(triggerBackgroundHarvest(
         [State EXCEPT !.timers = @ (-) One(timer)]))

\* #searchButton click
SearchSubmit_001 ==
  /\ TwoPhase /\ CanAct
  /\ Commit(performSearch_001([User EXCEPT !.currentQuery = searchInput], 1))

\* The change listener of #yearFilter and of #institutionFilter; the control
\* holds its new value already.
filterChange_001(s) == performSearch_001(s, 1)

\* The click listener of #clearFilters.
clearFilters_001(s) ==
  performSearch_001([s EXCEPT !.yearFilter = "", !.institutionFilter = ""], 1)

\* change event of #yearFilter
YearChange_001 ==
  \E y \in YearOptions \cup {""} :
    /\ TwoPhase /\ CanAct
    /\ filterOptions /\ y # yearFilter
    /\ Commit(filterChange_001([User EXCEPT !.yearFilter = y]))

\* change event of #institutionFilter
InstitutionChange_001 ==
  \E i \in InstitutionOptions \cup {""} :
    /\ TwoPhase /\ CanAct
    /\ filterOptions /\ i # institutionFilter
    /\ Commit(filterChange_001([User EXCEPT !.institutionFilter = i]))

\* #clearFilters click
ClearFilters_001 ==
  /\ TwoPhase /\ CanAct
  /\ Commit(clearFilters_001(User))

\* #prevPage click
PrevPage_001 ==
  /\ TwoPhase /\ CanAct
  /\ pagination.shown /\ ~pagination.prevDisabled
  /\ currentPage > 1
  /\ Commit(performSearch_001(User, currentPage - 1))

\* #nextPage click
NextPage_001 ==
  /\ TwoPhase /\ CanAct
  /\ pagination.shown /\ ~pagination.nextDisabled
  /\ Commit(performSearch_001(User, currentPage + 1))

\* A fetch of /search ends: a JSON body, or an exception.
SearchResponse_001 ==
  \E req \in BagToSet(searchReqs), ok \in BOOLEAN :
    /\ TwoPhase
    /\ LET s == [State EXCEPT !.searchReqs = @ (-) One(req)]
       IN Commit(IF req.cont = "performTwoPhaseSearch"
                   THEN TwoPhaseCachedEnds(s, req, ok)
                   ELSE CachedSearchEnds(s, req, ok))

\* A fetch of /live-search ends: a JSON body, or an exception.
LiveResponse_001 ==
  \E live \in BagToSet(liveReqs), ok \in BOOLEAN :
    /\ TwoPhase
    /\ Commit(LiveSearchEnds([State EXCEPT !.liveReqs = @ (-) One(live)],
                             live, ok))

\* The fetch of /harvest-now ends.
HarvestNowResponse_001 ==
  \E h \in BagToSet(harvestReqs), ok \in BOOLEAN :
    /\ TwoPhase
    /\ Commit(BackgroundHarvestEnds(
         [State EXCEPT !.harvestReqs = @ (-) One(h)], ok))

\* A fetch of initializeUI, or of the loadHealth after the harvest, ends.
LoadResponse_001 ==
  \E name \in loads, ok \in BOOLEAN :
    /\ TwoPhase
    /\ Commit(LoadEnds_001(State, name, ok))

(* ------------- script.js, third script: the filter listeners ------------ *)
\* The third script of script.js has the globals and the controls of the
\* two-phase script, and an author and a keyword box besides; its
\* performSearch always sends one /search request.  authorBox and keywordBox
\* are the contents of the two boxes.
performSearch_3(s, page, authorBox, keywordBox) ==
  LET s1 == Emit([s EXCEPT !.currentPage = page],
                 IF page = 1 THEN "performSearch(1)" ELSE "performSearch")
      req == [url |-> "search", q |-> Trim(s1.currentQuery),
              year |-> s1.yearFilter, institution |-> s1.institutionFilter,
              author |-> Trim(authorBox), keyword |-> Trim(keywordBox),
              page |-> page]
  IN Emit([s1 EXCEPT !.searchReqs = @ (+) One(req)], "send:search")

\* The change listener of #yearFilter and of #institutionFilter, and the
\* call that the debounced input listener of #authorFilter and of
\* #keywordFilter makes when its timer fires.
filterChange_3(s, authorBox, keywordBox) ==
  performSearch_3(s, 1, authorBox, keywordBox)

\* The click listener of #clearFilters.
clearFilters_3(s) ==
  performSearch_3([s EXCEPT !.yearFilter = "", !.institutionFilter = ""],
                  1, << >>, << >>)

(* --------------------------- time, in a script -------------------------- *)
\* The gap between two keystrokes of a burst.
KeyGap == IF Js THEN DELAY_js \div 3 ELSE DELAY_001 \div 2

NextDue == CHOOSE d \in {timer.due : timer \in BagToSet(timers)} :
             \A timer \in BagToSet(timers) : d <= timer.due

\* Time passes while a timer is pending: as long as a keystroke gap while
\* the debounced call is pending, or up to the timer due next.  A timer
\* fires when it is due.
Advance ==
  /\ ~Smart
  /\ timers # EmptyBag
  /\ \E d \in {NextDue - now}
               \cup {KeyGap : timer \in {x \in BagToSet(timers) :
                                           x.fn = "debouncedSearch"}} :
       /\ d > 0 /\ now + d <= NextDue
       /\ Commit([State EXCEPT !.now = @ + d])

(* ---------------------------- specification ---------------------------- *)
\* The state before the DOMContentLoaded handler of the smartSearch script.
\* The markup is not among the sources: the pagination and the sidebar are
\* taken as shown and the buttons as enabled, as elements are by default.
Loaded ==
  [currentCategory |-> "all", currentQuery |-> << >>, currentPage |-> 1,
   currentFilters |-> NoFilters, totalPages |-> 1, lastHarvestTime |-> 0,
   now |-> LoadTime, nextAutoHarvest |-> LoadTime + HARVEST_INTERVAL,
   display |-> Panel("initial", NoKey, FALSE),
   pagination |-> [shown |-> TRUE, prevDisabled |-> FALSE, nextDisabled |-> FALSE],
   filtersSidebar |-> [shown |-> TRUE, applyBtn |-> FALSE, years |-> {}],
   searchReqs |-> EmptyBag, harvestReqs |-> EmptyBag,
   latestIssued |-> NoKey, userActions |-> 0,
   variant |-> "part_000", totalResults |-> 0, searchInput |-> << >>,
   yearFilter |-> "", institutionFilter |-> "", filterOptions |-> FALSE,
   timers |-> EmptyBag, debounceT |-> NoTimer, loads |-> {},
   isLiveSearching |-> FALSE, liveReqs |-> EmptyBag, burst |-> NoBurst,
   out |-> << >>]

\* The DOMContentLoaded handler: checkSystemHealth(), smartSearch(1), timers.
DOMContentLoaded(s) == smartSearch(s, 1, TRUE)

\* The state before the DOMContentLoaded handler of script.js and part_001:
\* an empty search box, the selects without options, the controls as above.
Loaded_js ==
  [Loaded EXCEPT !.now = 0, !.nextAutoHarvest = 0,
                 !.display = [kind |-> "initial", key |-> NoKey, msg |-> "",
                              summary |-> ""],
                 !.pagination = [shown |-> TRUE,
                                 pageInfo |-> [page |-> 1, of |-> 1],
                                 prevDisabled |-> FALSE, nextDisabled |-> FALSE]]

\* The DOMContentLoaded handler of script.js: autoHarvestOnLoad().
DOMContentLoaded_js(s) == [s EXCEPT !.variant = "script.js",
                                    !.loads = {"auto-harvest"}]

\* The DOMContentLoaded handler of part_001: initializeUI().
DOMContentLoaded_001(s) == [s EXCEPT !.variant = "part_001",
                                     !.loads = InitialLoads]

Init ==
  \E s \in {DOMContentLoaded(Loaded), DOMContentLoaded_js(Loaded_js),
            DOMContentLoaded_001(Loaded_js)} :
     /\ currentCategory = s.currentCategory
     /\ currentQuery = s.currentQuery
     /\ currentPage = s.currentPage
     /\ currentFilters = s.currentFilters
     /\ totalPages = s.totalPages
     /\ lastHarvestTime = s.lastHarvestTime
     /\ now = s.now
     /\ nextAutoHarvest = s.nextAutoHarvest
     /\ display = s.display
     /\ pagination = s.pagination
     /\ filtersSidebar = s.filtersSidebar
     /\ searchReqs = s.searchReqs
     /\ harvestReqs = s.harvestReqs
     /\ latestIssued = s.latestIssued
     /\ userActions = s.userActions
     /\ variant = s.variant
     /\ totalResults = s.totalResults
     /\ searchInput = s.searchInput
     /\ yearFilter = s.yearFilter
     /\ institutionFilter = s.institutionFilter
     /\ filterOptions = s.filterOptions
     /\ timers = s.timers
     /\ debounceT = s.debounceT
     /\ loads = s.loads
     /\ isLiveSearching = s.isLiveSearching
     /\ liveReqs = s.liveReqs
     /\ burst = s.burst

Next ==
  \/ SearchSubmit
  \/ TabClick
  \/ ClearClick
  \/ PrevClick
  \/ NextClick
  \/ ApplyFilters
  \/ SwitchToElis
  \/ SearchResponse
  \/ HarvestResponse
  \/ HealthResponse
  \/ IntervalFire
  \/ Tick
  \/ Input_js
  \/ DebounceFire_js
  \/ SearchSubmit_js
  \/ YearChange_js
  \/ InstitutionChange_js
  \/ ClearFilters_js
  \/ PrevPage_js
  \/ NextPage_js
  \/ SearchResponse_js
  \/ LoadResponse_js
  \/ Input_001
  \/ DebounceFire_001
  \/ HarvestTimerFire_001
  \/ SearchSubmit_001
  \/ YearChange_001
  \/ InstitutionChange_001
  \/ ClearFilters_001
  \/ PrevPage_001
  \/ NextPage_001
  \/ SearchResponse_001
  \/ LiveResponse_001
  \/ HarvestNowResponse_001
  \/ LoadResponse_001
  \/ Advance

Spec == Init /\ [][Next]_vars

\* The two-phase script alone, from its DOMContentLoaded handler.
Init_001 == Init /\ TwoPhase

Next_001 ==
  \/ Input_001
  \/ DebounceFire_001
  \/ HarvestTimerFire_001
  \/ SearchSubmit_001
  \/ YearChange_001
  \/ InstitutionChange_001
  \/ ClearFilters_001
  \/ PrevPage_001
  \/ NextPage_001
  \/ SearchResponse_001
  \/ LiveResponse_001
  \/ HarvestNowResponse_001
  \/ LoadResponse_001
  \/ Advance

\* The timer of initializeUI is pending.
HarvestTimerPending ==
  \E timer \in BagToSet(timers) : timer.fn = "triggerBackgroundHarvest"

\* The two-phase script under the scheduling of the browser: a fetch of a
\* load settles (each load catches its own failure), time passes while a
\* timer is pending, and a timer that is due fires.  For the debounced
\* search this is assumed only while the timer of initializeUI is pending.
FairSpec ==
  /\ Init_001 /\ [][Next_001]_vars
  /\ WF_vars(LoadResponse_001)
  /\ WF_vars(Advance)
  /\ WF_vars(HarvestTimerPending /\ DebounceFire_001)
  /\ WF_vars(HarvestTimerFire_001)

\* The smartSearch script alone, from its DOMContentLoaded handler.
Init_000 == Init /\ Smart

Next_000 ==
  \/ SearchSubmit
  \/ TabClick
  \/ ClearClick
  \/ PrevClick
  \/ NextClick
  \/ ApplyFilters
  \/ SwitchToElis
  \/ SearchResponse
  \/ HarvestResponse
  \/ HealthResponse
  \/ IntervalFire
  \/ Tick

\* The smartSearch script when every fetch of smartSearch settles, with a
\* response or a failure.  This is assumed only while the loading panel is
\* shown.
FairSpec_000 ==
  /\ Init_000 /\ [][Next_000]_vars
  /\ WF_vars(display.kind = "loading" /\ SearchResponse)

(* ------------------------------- claims ------------------------------- *)
\* The state in which the response to req, or the end of h, is handled.
Answered(req) == [State EXCEPT !.searchReqs = @ (-) One(req)]
Ended(h) == [State EXCEPT !.harvestReqs = @ (-) One(h)]
Same(s, t) == [t EXCEPT !.out = << >>] = [s EXCEPT !.out = << >>]
Sends(s) ==
  {i \in 1..Len(s.out) :
     s.out[i] \in {"send:harvest", "send:elis-live-search",
                   "send:harvest-incremental", "send:search",
                   "send:live-search", "send:harvest-now"}}
HarvestOk(n) == [exception |-> FALSE, success |-> TRUE, newRecords |-> n]
HarvestFailures == {r \in HarvestResults : r.exception \/ ~r.success}
PageArgs == 1..(totalPages + 1)
DebounceTimers == {timer \in BagToSet(timers) : timer.fn = "debouncedSearch"}
LiveOf(req) ==
  [q |-> req.q, year |-> req.year, institution |-> req.institution,
   page |-> req.page]

\* C1: while now - lastHarvestTime < HARVEST_INTERVAL, triggerAutoHarvest is
\* a no-op for every category and refreshAfter: no request, lastHarvestTime
\* and everything else unchanged, no refresh search, and it returns skipped;
\* so is the call at the end of a search response.
C1_GateClosedNoOp ==
  Smart /\ now - lastHarvestTime < HARVEST_INTERVAL =>
    /\ \A c \in Categories, refreshAfter \in BOOLEAN :
         LET t == triggerAutoHarvest(State, c, refreshAfter)
         IN /\ Same(State, t)
            /\ t.out = <<"return:skipped">>
    /\ \A req \in BagToSet(searchReqs) :
         LET t == SearchSucceeded(Answered(req), req)
         IN /\ t.harvestReqs = harvestReqs
            /\ t.lastHarvestTime = lastHarvestTime
            /\ t.searchReqs = searchReqs (-) One(req)
            /\ ~Has(t, "send:harvest-incremental")
            /\ (req.runHarvest /\ currentCategory # "elis"
                  => Has(t, "return:skipped"))

C1_Witness ==
  /\ Smart
  /\ now - lastHarvestTime < HARVEST_INTERVAL
  /\ currentCategory # "elis"
  /\ \E req \in BagToSet(searchReqs) :
       req.runHarvest /\ Has(SearchSucceeded(Answered(req), req), "return:skipped")

\* C2 (the claim as stated): no harvest request is dispatched while another
\* one for the same category is outstanding, so that at most one harvest
\* request per category is in flight.
C2_OneHarvestPerCategory ==
  Smart =>
    \A h \in BagToSet(harvestReqs) :
      /\ CopiesIn(h, harvestReqs) = 1
      /\ \A g \in BagToSet(harvestReqs) : g.category = h.category => g = h

\* C3: the end of a successful harvest with new records, started by a search,
\* calls smartSearch exactly once, with runHarvest false, and dispatches no
\* harvest; the response to such a refresh search dispatches no harvest and
\* calls no search; a search response dispatches at most one harvest.
C3_RefreshNeverHarvests ==
  Smart =>
    /\ \A h \in BagToSet(harvestReqs), n \in NewRecordCounts :
         h.refreshAfter /\ n > 0 =>
           LET t == HarvestCompleted(Ended(h), h, HarvestOk(n))
           IN /\ Count(t, "smartSearch:noHarvest") = 1
              /\ Count(t, "smartSearch") = 0
              /\ t.harvestReqs = harvestReqs (-) One(h)
              /\ BagCardinality(t.searchReqs) <= BagCardinality(searchReqs) + 1
              /\ \A r \in BagToSet(t.searchReqs (-) searchReqs) : ~r.runHarvest
    /\ \A req \in BagToSet(searchReqs) :
         /\ ~req.runHarvest =>
              \A t \in {SearchSucceeded(Answered(req), req)}
                         \cup {SearchFailed(Answered(req), f) : f \in SearchFailures} :
                /\ t.harvestReqs = harvestReqs
                /\ t.searchReqs = searchReqs (-) One(req)
                /\ Sends(t) = {}
         /\ BagCardinality(SearchSucceeded(Answered(req), req).harvestReqs)
              <= BagCardinality(harvestReqs) + 1

C3_Witness ==
  /\ Smart
  /\ \E r \in BagToSet(searchReqs) :
       ~r.runHarvest /\ ~GateClosed(now, lastHarvestTime) /\ currentCategory # "elis"

\* C4: smartSearch dispatches a harvest only at the end of the handling of
\* its own successful response, after its results were rendered: not when
\* the search is issued, and not when its fetch fails.  The two-phase script
\* dispatches a live search only at the end of the handling of the
\* successful cached response of performTwoPhaseSearch, after the cached
\* results were rendered (the loading panel, when there are none): not when
\* the search is issued, not when a fetch fails, and not from the refresh.
C4_CachedFirst ==
  /\ Smart =>
       /\ \A req \in BagToSet(searchReqs) :
            LET t == SearchSucceeded(Answered(req), req)
            IN Has(t, "send:harvest-incremental") =>
                 /\ Before(t, "results", "send:harvest-incremental")
                 /\ t.display.kind \in {"results", "noresults"}
                 /\ t.display.key = KeyOf(req)
                 /\ t.searchReqs = searchReqs (-) One(req)
       /\ \A req \in BagToSet(searchReqs), f \in SearchFailures :
            SearchFailed(Answered(req), f).harvestReqs = harvestReqs
       /\ \A page \in PageArgs, runHarvest \in BOOLEAN :
            smartSearch(State, page, runHarvest).harvestReqs = harvestReqs
  /\ TwoPhase =>
       /\ \A req \in BagToSet(searchReqs), ok \in BOOLEAN :
            LET t == IF req.cont = "performTwoPhaseSearch"
                       THEN TwoPhaseCachedEnds(Answered(req), req, ok)
                       ELSE CachedSearchEnds(Answered(req), req, ok)
            IN IF req.cont = "performTwoPhaseSearch" /\ ok
                 THEN /\ t.liveReqs = liveReqs (+) One(LiveOf(req))
                      /\ t.searchReqs = searchReqs (-) One(req)
                      /\ Count(t, "send:live-search") = 1
                      /\ IF ResultsLength(req) > 0
                           THEN /\ Before(t, "results", "send:live-search")
                                /\ t.display.kind = "results"
                                /\ t.display.key = KeyOf_js(req)
                           ELSE /\ Before(t, "loading", "send:live-search")
                                /\ t.display.kind = "loading"
                 ELSE t.liveReqs = liveReqs
       /\ \A page \in 1..(currentPage + 1) :
            performSearch_001(State, page).liveReqs = liveReqs
       /\ \A live \in BagToSet(liveReqs), ok \in BOOLEAN :
            LiveSearchEnds([State EXCEPT !.liveReqs = @ (-) One(live)],
                           live, ok).liveReqs = liveReqs (-) One(live)

C4_Witness ==
  /\ Smart
  /\ \E req \in BagToSet(searchReqs) :
       Has(SearchSucceeded(Answered(req), req), "send:harvest-incremental")

\* a two-phase search whose cached fetch is about to return results
C4_Witness_001 ==
  /\ TwoPhase
  /\ \E req \in BagToSet(searchReqs) :
       req.cont = "performTwoPhaseSearch" /\ ResultsLength(req) > 0

\* C5 (the claim as stated, for the smartSearch script): once no search is
\* outstanding, what is shown is not the result of a search other than the
\* one issued last, and the current page is that of the search issued last.
C5_LatestSearchWins ==
  Smart /\ searchReqs = EmptyBag /\ display.kind \in {"results", "noresults"} =>
    display.key = latestIssued /\ currentPage = latestIssued.page

\* C6: with the category elis and an empty query, smartSearch sends nothing
\* and renders the idle state, for every page and runHarvest, whatever the
\* rest of the state is.
C6_ElisIdleNoRequest ==
  Smart =>
    LET s == [State EXCEPT !.currentCategory = "elis", !.currentQuery = << >>]
    IN \A page \in PageArgs, runHarvest \in BOOLEAN :
         LET t == smartSearch(s, page, runHarvest)
         IN /\ t.searchReqs = searchReqs
            /\ t.harvestReqs = harvestReqs
            /\ Sends(t) = {}
            /\ t.display.kind = "idle"

C6_Witness ==
  /\ Smart
  /\ currentCategory = "elis" /\ currentQuery = << >>
  /\ \E h \in BagToSet(harvestReqs) :
       LET t == HarvestCompleted(Ended(h), h, HarvestOk(3))
       IN Has(t, "smartSearch:noHarvest") /\ Has(t, "idle")

\* C7: in script.js, while keystrokes have arrived since the debounced call
\* last ran, exactly one timer of the debounced call is pending (every
\* earlier one is cancelled), due one delay after the last keystroke, and
\* time does not pass it; when it fires, performSearch(1) runs once, one
\* delay after the last keystroke, with the query of the last keystroke,
\* and no timer of the debounced call is left.
C7_Debounce ==
  Js =>
    /\ Cardinality(DebounceTimers) <= 1
    /\ \A timer \in DebounceTimers : CopiesIn(timer, timers) = 1
    /\ burst.n > 0 <=> DebounceTimers # {}
    /\ \A timer \in DebounceTimers :
         /\ timer.due = burst.at + DELAY_js
         /\ now <= timer.due
         /\ timer.due <= now =>
              LET t == DebouncedSearch_js(State, timer)
                  req == [url |-> "search", q |-> Trim(burst.value),
                          year |-> yearFilter, institution |-> institutionFilter,
                          page |-> 1]
              IN /\ Count(t, "performSearch(1)") = 1
                 /\ Count(t, "performSearch") = 0
                 /\ now = burst.at + DELAY_js
                 /\ t.currentQuery = burst.value
                 /\ t.timers = timers (-) One(timer)
                 /\ {x \in BagToSet(t.timers) : x.fn = "debouncedSearch"} = {}
                 /\ IF Trim(burst.value) = << >> /\ yearFilter = ""
                         /\ institutionFilter = ""
                      THEN t.searchReqs = searchReqs
                      ELSE t.searchReqs = searchReqs (+) One(req)

\* the timer is due after a burst of at least two keystrokes
C7_Witness ==
  /\ Js
  /\ burst.n >= 2 /\ Trim(burst.value) # << >>
  /\ \E timer \in DebounceTimers : timer.due = now

\* C8 (the claim as stated): after a search response is handled, totalPages
\* is ceil(total / PAGE_SIZE), previous is disabled iff page = 1 and next is
\* disabled iff page = totalPages.
C8_PaginationAsStated ==
  Smart =>
    \A req \in BagToSet(searchReqs) :
      LET t == SearchSucceeded(Answered(req), req)
      IN /\ t.totalPages = (BackendTotal(req) + PAGE_SIZE - 1) \div PAGE_SIZE
         /\ t.pagination.prevDisabled <=> (t.currentPage = 1)
         /\ t.pagination.nextDisabled <=> (t.currentPage = t.totalPages)

\* C8 (amended): after a successful search response is handled by the
\* smartSearch script, totalPages is max(1, ceil(total / PAGE_SIZE)),
\* previous is disabled iff page = 1 and next is disabled iff
\* page >= totalPages.  script.js stores no totalPages: with more results
\* than one page it shows the controls with ceil(total / PAGE_SIZE) pages,
\* previous disabled iff currentPage = 1 and next disabled iff
\* currentPage >= that number; otherwise it hides them as they are.
C8_Pagination ==
  /\ Smart =>
       \A req \in BagToSet(searchReqs) :
         LET t == SearchSucceeded(Answered(req), req)
             pages == (BackendTotal(req) + PAGE_SIZE - 1) \div PAGE_SIZE
         IN /\ t.totalPages = IF pages = 0 THEN 1 ELSE pages
            /\ t.currentPage = req.page
            /\ t.pagination.prevDisabled <=> (t.currentPage = 1)
            /\ t.pagination.nextDisabled <=> (t.currentPage >= t.totalPages)
  /\ Js =>
       \A req \in BagToSet(searchReqs) :
         LET t == SearchSucceeded_js(Answered(req), req)
             pages == (SearchTotal(req) + PAGE_SIZE_js - 1) \div PAGE_SIZE_js
         IN /\ t.totalResults = SearchTotal(req)
            /\ t.currentPage = currentPage
            /\ IF SearchTotal(req) > PAGE_SIZE_js
                 THEN /\ t.pagination.shown
                      /\ t.pagination.pageInfo = [page |-> currentPage, of |-> pages]
                      /\ t.pagination.prevDisabled <=> (currentPage = 1)
                      /\ t.pagination.nextDisabled <=> (currentPage >= pages)
                 ELSE t.pagination = [pagination EXCEPT !.shown = FALSE]

\* responses about to arrive: one with no records, one for a page after the
\* first, one for a page past the last
C8_Witness ==
  /\ Smart
  /\ \E req \in BagToSet(searchReqs) : BackendTotal(req) = 0
  /\ \E req \in BagToSet(searchReqs) : BackendTotal(req) > PAGE_SIZE /\ req.page > 1
  /\ \E req \in BagToSet(searchReqs) :
       req.page > SearchSucceeded(Answered(req), req).totalPages

\* a response with more than one page about to arrive in script.js
C8_Witness_js ==
  /\ Js
  /\ \E req \in BagToSet(searchReqs) : SearchTotal(req) > PAGE_SIZE_js /\ req.page > 1

\* C9 (the claim, read in its favour with a last page of at least 1): every
\* search request in flight asks for a page between 1 and the last page of
\* the result set it queries.
C9_PageInRange ==
  \A req \in BagToSet(searchReqs) :
    LET pages == IF Smart THEN Ceil(BackendTotal(req), PAGE_SIZE)
                          ELSE Ceil(SearchTotal(req), PAGE_SIZE_js)
    IN 1 <= req.page /\ req.page <= (IF pages = 0 THEN 1 ELSE pages)

\* C9 in the smartSearch script only
C9_PageInRange_000 == Smart => C9_PageInRange

\* C9 in the two-phase script only
C9_PageInRange_001 == TwoPhase => C9_PageInRange

\* C9 in script.js only
C9_PageInRange_js == Js => C9_PageInRange

\* C10: the end of a failed harvest (an exception, or success false) changes
\* nothing: lastHarvestTime, the requests in flight and what is shown stay
\* as they are, so the gate answers as before.
C10_FailedHarvestNoEffect ==
  Smart =>
    \A h \in BagToSet(harvestReqs), result \in HarvestFailures :
      LET t == HarvestCompleted(Ended(h), h, result)
      IN /\ t.lastHarvestTime = lastHarvestTime
         /\ t.searchReqs = searchReqs
         /\ t.display = display
         /\ Count(t, "smartSearch") + Count(t, "smartSearch:noHarvest") = 0
         /\ Same(Ended(h), t)
         /\ (now - t.lastHarvestTime < HARVEST_INTERVAL)
              <=> (now - lastHarvestTime < HARVEST_INTERVAL)

\* The harvest of the first search was dispatched and is gone, and
\* lastHarvestTime is as it was.
C10_Witness ==
  /\ Smart
  /\ userActions = 0 /\ now = LoadTime
  /\ display.kind = "results"
  /\ harvestReqs = EmptyBag /\ searchReqs = EmptyBag
  /\ lastHarvestTime = 0

\* ---- C11 ----
\* A step that ends the harvest request h.
HarvestEnded(h) ==
  /\ BagIn(h, harvestReqs)
  /\ harvestReqs' = harvestReqs (-) One(h)

\* C11 as stated: lastHarvestTime changes only in a step that ends a
\* harvest request, and then to the time that harvest was started; no health
\* check, search, tab switch or timer changes it.
C11_OnlyHarvestWrites ==
  [][Smart /\ lastHarvestTime' # lastHarvestTime
       => \E h \in BagToSet(harvestReqs) :
            HarvestEnded(h) /\ lastHarvestTime' = h.now]_vars

\* C11: every successful harvest completion writes lastHarvestTime once, to
\* the time the harvest was started, whatever newRecords is; and
\* lastHarvestTime changes only in such a completion or in a health check
\* response that carries a last harvest time, which sets it to that time.
C11_HarvestAndHealthWrite ==
  /\ [](Smart =>
          \A h \in BagToSet(harvestReqs), n \in NewRecordCounts :
            LET t == HarvestCompleted(Ended(h), h, HarvestOk(n))
            IN /\ t.lastHarvestTime = h.now
               /\ Count(t, "harvest:done") = 1)
  /\ [][Smart /\ lastHarvestTime' # lastHarvestTime
         => \/ \E h \in BagToSet(harvestReqs) :
                 HarvestEnded(h) /\ lastHarvestTime' = h.now
            \/ /\ lastHarvestTime' = ServerLastHarvest
               /\ harvestReqs' = harvestReqs
               /\ searchReqs' = searchReqs]_vars

\* A harvest started at load has completed after time has passed, and
\* lastHarvestTime is the time it was started.
C11_Witness ==
  /\ Smart
  /\ now > LoadTime
  /\ lastHarvestTime = LoadTime
  /\ harvestReqs = EmptyBag

\* ---- C12 ----
\* C12: a search whose fetch throws or answers non-2xx, whose body says
\* success false, or whose body has no results array ends with the error
\* panel in the results area and the pagination hidden; it sends no request,
\* starts no harvest and leaves the query, page, filters and category alone,
\* so that nothing is retried.
C12_FailuresShowError ==
  Smart =>
    \A req \in BagToSet(searchReqs), response \in SearchResponses :
      (response.exception \/ ~response.ok \/ ~response.success
         \/ ~response.results)
        => LET t == SearchEnds(Answered(req), req, response)
           IN /\ t.display.kind = "error"
              /\ ~t.pagination.shown
              /\ Sends(t) = {}
              /\ Count(t, "smartSearch") + Count(t, "smartSearch:noHarvest") = 0
              /\ t.searchReqs = searchReqs (-) One(req)
              /\ t.harvestReqs = harvestReqs
              /\ t.timers = timers
              /\ <<t.currentQuery, t.currentPage, t.currentFilters,
                    t.currentCategory>>
                   = <<currentQuery, currentPage, currentFilters,
                       currentCategory>>

\* A search of the user has failed: the error panel is shown and no request
\* is outstanding.
C12_Witness ==
  /\ Smart
  /\ userActions > 0
  /\ display.kind = "error"
  /\ searchReqs = EmptyBag /\ harvestReqs = EmptyBag

\* ---- C13 ----
\* C13: no /harvest-incremental request outstanding is for the category
\* "elis", and neither a search response, whatever the category is by then,
\* nor the interval timer sends one for it.
C13_NoElisHarvest ==
  Smart =>
    /\ \A h \in BagToSet(harvestReqs) : h.category # "elis"
    /\ \A req \in BagToSet(searchReqs), response \in SearchResponses :
         LET t == SearchEnds(Answered(req), req, response)
         IN /\ \A h \in BagToSet(t.harvestReqs) : h.category # "elis"
            /\ currentCategory = "elis"
                 => Count(t, "send:harvest-incremental") = 0
    /\ LET t == autoHarvestInterval(State)
       IN /\ \A h \in BagToSet(t.harvestReqs) : h.category # "elis"
          /\ currentCategory = "elis" => Sends(t) = {}

\* The category was switched to "elis" while a search of a cached category
\* that may start a harvest is in flight and the gate is open.
C13_Witness ==
  /\ Smart
  /\ currentCategory = "elis"
  /\ ~GateClosed(now, lastHarvestTime)
  /\ \E req \in BagToSet(searchReqs) :
       req.category # "elis" /\ req.runHarvest

\* ---- C15 ----
\* C15: when the response to a search of a cached category is handled as a
\* success while the category is a cached one, the filter sidebar is shown
\* and its options are exactly the facets of that response, whatever was
\* shown before.
C15_FacetsReplaced ==
  Smart =>
    \A req \in BagToSet(searchReqs) :
      req.category # "elis" /\ currentCategory # "elis"
        => LET t == SearchSucceeded(Answered(req), req)
           IN /\ Count(t, "filters") = 1
              /\ t.filtersSidebar.shown
              /\ t.filtersSidebar.applyBtn
              /\ t.filtersSidebar.years = Facets(req).years

\* Options that the response about to be handled does not supply are shown.
C15_Witness ==
  /\ Smart
  /\ currentCategory # "elis"
  /\ \E req \in BagToSet(searchReqs) :
       /\ req.category # "elis"
       /\ filtersSidebar.years \ Facets(req).years # {}

\* ---- C14 ----
\* The search requests that a handler ending in state t has sent.
C14_Sent(t) == t.searchReqs (-) searchReqs

\* The handler ending in t has called performSearch(1) and set the page to
\* 1, and what it has sent carries page 1 and the filter values year and
\* inst.
C14_Reset(t, year, inst) ==
  /\ t.currentPage = 1
  /\ Has(t, "performSearch(1)")
  /\ \A r \in BagToSet(C14_Sent(t)) :
       r.page = 1 /\ r.year = year /\ r.institution = inst

\* The same, and it has sent one request.
C14_PageOne(t, year, inst) ==
  C14_Reset(t, year, inst) /\ BagCardinality(C14_Sent(t)) = 1

\* part_000: a click on #applyFilters sets the page to 1 and sends one
\* request, for page 1 and the filters applied.
C14_PageOne_000 ==
  Smart /\ filtersSidebar.shown /\ filtersSidebar.applyBtn =>
    \A f \in FilterChoices :
      LET t == applyFilters(State, f)
      IN /\ t.currentPage = 1
         /\ t.currentFilters = f
         /\ Count(t, "smartSearch") = 1
         /\ BagCardinality(C14_Sent(t)) = 1
         /\ \A r \in BagToSet(C14_Sent(t)) : r.page = 1 /\ r.filters = f

\* script.js, first script: every change of a filter and every click on
\* #clearFilters sets the page to 1, and the request it sends is for page 1.
C14_Reset_js ==
  Js =>
    /\ \A y \in YearOptions \cup {""} :
         C14_Reset(filterChange_js([State EXCEPT !.yearFilter = y]),
                   y, institutionFilter)
    /\ \A i \in InstitutionOptions \cup {""} :
         C14_Reset(filterChange_js([State EXCEPT !.institutionFilter = i]),
                   yearFilter, i)
    /\ C14_Reset(clearFilters_js(State), "", "")

\* The handler ending in t has called performSearch(1); it has sent nothing
\* and left the page alone when the query and both filters are empty, and
\* has set the page to 1 and sent one request for page 1 otherwise.
C14_PageOneOrPrompt(t, year, inst) ==
  IF Trim(currentQuery) = << >> /\ year = "" /\ inst = ""
    THEN /\ Has(t, "performSearch(1)")
         /\ C14_Sent(t) = EmptyBag
         /\ t.currentPage = currentPage
         /\ t.display.kind = "empty"
    ELSE C14_PageOne(t, year, inst)

C14_PageOneOrPrompt_js ==
  Js =>
    /\ \A y \in YearOptions \cup {""} :
         C14_PageOneOrPrompt(filterChange_js([State EXCEPT !.yearFilter = y]),
                             y, institutionFilter)
    /\ \A i \in InstitutionOptions \cup {""} :
         C14_PageOneOrPrompt(
           filterChange_js([State EXCEPT !.institutionFilter = i]),
           yearFilter, i)
    /\ C14_PageOneOrPrompt(clearFilters_js(State), "", "")

\* part_001 and the third script of script.js: as in C14_PageOne_js; the
\* request of the third script carries the author and the keyword as well.
C14_PageOne_001 ==
  TwoPhase =>
    /\ \A y \in YearOptions \cup {""} :
         C14_PageOne(filterChange_001([State EXCEPT !.yearFilter = y]),
                     y, institutionFilter)
    /\ \A i \in InstitutionOptions \cup {""} :
         C14_PageOne(filterChange_001([State EXCEPT !.institutionFilter = i]),
                     yearFilter, i)
    /\ C14_PageOne(clearFilters_001(State), "", "")

C14_PageOne_3 ==
  TwoPhase =>
    /\ \A y \in YearOptions \cup {""}, i \in InstitutionOptions \cup {""},
          a \in BoxValues, k \in BoxValues :
         LET t == filterChange_3([State EXCEPT !.yearFilter = y,
                                               !.institutionFilter = i], a, k)
         IN /\ C14_PageOne(t, y, i)
            /\ \A r \in BagToSet(C14_Sent(t)) :
                 r.author = Trim(a) /\ r.keyword = Trim(k)
    /\ LET t == clearFilters_3(State)
       IN /\ C14_PageOne(t, "", "")
          /\ \A r \in BagToSet(C14_Sent(t)) :
               r.author = << >> /\ r.keyword = << >>

C14_Witness_js ==
  /\ Js
  /\ currentPage = 2
  /\ Trim(currentQuery) = << >>
  /\ yearFilter = "" /\ institutionFilter = ""

\* ---- C16 ----
\* currentQuery, currentPage, currentFilters and currentCategory in state s
C16_SearchState(s) ==
  <<s.currentQuery, s.currentPage, s.currentFilters, s.currentCategory>>

\* C16: no response to a search, no completion of a harvest and no firing
\* of the auto-harvest timer changes currentQuery, currentPage,
\* currentFilters or currentCategory.
C16_OnlyUserMutates ==
  Smart =>
    /\ \A req \in BagToSet(searchReqs), response \in SearchResponses :
         C16_SearchState(SearchEnds(Answered(req), req, response))
           = C16_SearchState(State)
    /\ \A h \in BagToSet(harvestReqs), result \in HarvestResults :
         C16_SearchState(HarvestCompleted(Ended(h), h, result))
           = C16_SearchState(State)
    /\ C16_SearchState(autoHarvestInterval(State)) = C16_SearchState(State)

\* ---- C17 ----
\* C17: in every script, currentPage is an integer not below 1 in every
\* reachable state.
C17_PageAtLeastOne == currentPage \in Nat /\ currentPage >= 1

\* The page is 1 again after page 2: a request for page 2 is in flight and
\* the "previous" button is still enabled, so that a click on it reaches the
\* handler's test of currentPage.
C17_Witness ==
  /\ Smart
  /\ userActions = 2
  /\ currentPage = 1
  /\ pagination.shown /\ ~pagination.prevDisabled
  /\ \E req \in BagToSet(searchReqs) : req.page = 2

\* ---- C18 ----
\* The harvest request h is outstanding and was started by a search.
C18_Refreshing(h) == BagIn(h, harvestReqs) /\ h.refreshAfter

C19_Refreshes(t) == Count(t, "smartSearch") + Count(t, "smartSearch:noHarvest")

\* C19 as stated: a harvest that ends makes one refresh search if it was
\* started with refreshAfter, succeeded and reported new records, and none
\* otherwise; and it changes lastHarvestTime only if it succeeded and
\* reported new records.
C19_RefreshAndTimeOnNewRecords ==
  Smart =>
    \A h \in BagToSet(harvestReqs), result \in HarvestResults :
      LET t == HarvestCompleted(Ended(h), h, result)
          new == ~result.exception /\ result.success /\ result.newRecords > 0
      IN /\ C19_Refreshes(t) = IF h.refreshAfter /\ new THEN 1 ELSE 0
         /\ t.lastHarvestTime # lastHarvestTime => new

\* C19: a harvest that ends makes one refresh search if it was started with
\* refreshAfter, succeeded and reported new records, and none otherwise;
\* lastHarvestTime is set to the time the harvest was started on every
\* success, with or without new records, and left alone on failure.
C19_RefreshOnNewRecords ==
  Smart =>
    \A h \in BagToSet(harvestReqs), result \in HarvestResults :
      LET t == HarvestCompleted(Ended(h), h, result)
          ok == ~result.exception /\ result.success
      IN /\ C19_Refreshes(t)
              = IF h.refreshAfter /\ ok /\ result.newRecords > 0 THEN 1 ELSE 0
         /\ Count(t, "smartSearch") = 0
         /\ ~(h.refreshAfter /\ ok /\ result.newRecords > 0)
              => t.searchReqs = searchReqs /\ t.display = display
         /\ t.lastHarvestTime = IF ok THEN h.now ELSE lastHarvestTime

\* A harvest started by a search is outstanding, and lastHarvestTime is not
\* yet the time it was started.
C19_Witness ==
  /\ Smart
  /\ \E h \in BagToSet(harvestReqs) :
       h.refreshAfter /\ lastHarvestTime # h.now
  /\ \E h \in BagToSet(harvestReqs) : ~h.refreshAfter

\* ---- C20 ----
\* The handler ending in t has called triggerAutoHarvest.
C20_Reached(t) == Has(t, "send:harvest-incremental") \/ Has(t, "return:skipped")

\* C20: a search whose fetch fails, or whose body says success false or has
\* no results array, never calls triggerAutoHarvest; a search that succeeds
\* calls it, if at all, once and after it has rendered the results, the
\* filters and the pagination of the response.
C20_HarvestOnlyAfterRender ==
  Smart =>
    \A req \in BagToSet(searchReqs), response \in SearchResponses :
      LET t == SearchEnds(Answered(req), req, response)
      IN IF FailureOf(response) # "none"
           THEN /\ ~C20_Reached(t)
                /\ t.harvestReqs = harvestReqs
                /\ ~Has(t, "results") /\ ~Has(t, "pagination")
           ELSE /\ Count(t, "results") = 1 /\ Count(t, "pagination") = 1
                /\ C20_Reached(t)
                     <=> req.runHarvest /\ currentCategory # "elis"
                /\ \A e \in {"send:harvest-incremental", "return:skipped"} :
                     Has(t, e)
                       => /\ Count(t, "send:harvest-incremental")
                               + Count(t, "return:skipped") = 1
                          /\ Before(t, "results", e)
                          /\ Before(t, "pagination", e)
                          /\ Facets(req).given => Before(t, "filters", e)
                          /\ t.out[Len(t.out)] = e

\* The first search has failed with the harvest gate open: the error panel
\* is shown and no harvest was started.
C20_Witness ==
  /\ Smart
  /\ userActions = 0
  /\ display.kind = "error"
  /\ lastHarvestTime = 0
  /\ harvestReqs = EmptyBag /\ searchReqs = EmptyBag

\* ---- C21 ----
\* C21: the callback of the auto-harvest timer does nothing while the
\* category is "elis", and otherwise calls triggerAutoHarvest, which returns
\* at a closed gate and else sends one request without refreshAfter; neither
\* the callback nor the completion of such a harvest calls smartSearch,
\* sends a search request or changes the results area.
C21_IntervalHarvestSilent ==
  Smart =>
    /\ LET t == autoHarvestInterval(State)
           sent == t.harvestReqs (-) harvestReqs
       IN /\ t.searchReqs = searchReqs /\ t.display = display
          /\ C19_Refreshes(t) = 0
          /\ IF currentCategory = "elis"
               THEN Same(State, t) /\ t.out = << >>
               ELSE IF GateClosed(now, lastHarvestTime)
                 THEN Same(State, t) /\ t.out = <<"return:skipped">>
                 ELSE /\ t.out = <<"send:harvest-incremental">>
                      /\ BagCardinality(sent) = 1
                      /\ \A h \in BagToSet(sent) :
                           /\ ~h.refreshAfter
                           /\ h.category = currentCategory
                           /\ h.now = now
    /\ \A h \in BagToSet(harvestReqs), result \in HarvestResults :
         ~h.refreshAfter
           => LET t == HarvestCompleted(Ended(h), h, result)
              IN /\ t.searchReqs = searchReqs /\ t.display = display
                 /\ C19_Refreshes(t) = 0
                 /\ Sends(t) = {}

\* A harvest started by the timer is outstanding while results are shown.
C21_Witness ==
  /\ Smart
  /\ now > LoadTime
  /\ display.kind = "results"
  /\ \E h \in BagToSet(harvestReqs) : ~h.refreshAfter /\ h.now > LoadTime

\* ---- C22 ----
\* The handler ending in t has switched to "elis" without a request: the
\* category is "elis", the page 1, the idle panel shown and the filter
\* sidebar hidden; query, filters and requests are as they were.
C22_ElisIdle(t) ==
  /\ t.currentCategory = "elis" /\ t.currentPage = 1
  /\ t.display.kind = "idle"
  /\ ~t.filtersSidebar.shown
  /\ t.currentQuery = currentQuery /\ t.currentFilters = currentFilters
  /\ t.searchReqs = searchReqs /\ t.harvestReqs = harvestReqs
  /\ Sends(t) = {} /\ C19_Refreshes(t) = 0

\* C22: a click on the tab of "elis" and switchToEliSLiveSearch send no
\* request, whatever the query is: they set the category "elis" and page 1,
\* show the idle panel and leave the query and the filters alone; a click
\* on the tab of another category sends one search request, for page 1 of
\* that category, to the cache.
C22_SwitchToElisSendsNothing ==
  Smart =>
    /\ C22_ElisIdle(tabClick(State, "elis"))
    /\ C22_ElisIdle(switchToEliSLiveSearch(State))
    /\ \A c \in Categories \ {"elis"} :
         LET t == tabClick(State, c)
             sent == t.searchReqs (-) searchReqs
         IN /\ t.currentCategory = c /\ t.currentPage = 1
            /\ t.currentQuery = currentQuery
            /\ t.currentFilters = currentFilters
            /\ BagCardinality(sent) = 1
            /\ \A r \in BagToSet(sent) :
                 /\ r.url = "harvest" /\ r.category = c /\ r.page = 1
                 /\ r.query = currentQuery /\ r.filters = currentFilters
            /\ t.harvestReqs = harvestReqs

\* The category is "elis" with a query that is not empty, and the idle panel
\* is shown.
C22_Witness ==
  /\ Smart
  /\ currentCategory = "elis"
  /\ currentQuery # << >>
  /\ display.kind = "idle"

\* ---- C23 ----
\* C23: when the live search of a two-phase search ends well, one cached
\* search is sent, for the query, page, year and institution that the
\* two-phase search was started with.
C23_RefreshSameQuery ==
  TwoPhase =>
    \A live \in BagToSet(liveReqs) :
      LET t == LiveSearchEnds([State EXCEPT !.liveReqs = @ (-) One(live)],
                              live, TRUE)
          sent == t.searchReqs (-) searchReqs
      IN /\ BagCardinality(sent) = 1
         /\ \A r \in BagToSet(sent) :
              /\ r.q = live.q
              /\ r.page = live.page
              /\ r.year = live.year
              /\ r.institution = live.institution

\* ---- C24 ----
\* The handler ending in t has dispatched no live search.
C24_NoLive(t) == t.liveReqs = liveReqs /\ ~Has(t, "send:live-search")

\* C24: performSearch itself dispatches no live search, and starts the
\* two-phase search only for a query that is not blank; a live search is
\* dispatched once when the cached fetch of a two-phase search has succeeded,
\* for its query, which is not empty; a cached fetch that fails, the end of
\* a cached search without query and the refresh after a live search
\* dispatch none, and the refresh does not start a two-phase search.
C24_LiveOnlyAfterCachedQuery ==
  TwoPhase =>
    /\ \A live \in BagToSet(liveReqs) : live.q # << >>
    /\ \A page \in PageArgs :
         LET t == performSearch_001(State, page)
             sent == t.searchReqs (-) searchReqs
         IN /\ C24_NoLive(t)
            /\ BagCardinality(sent) = 1
            /\ \A r \in BagToSet(sent) :
                 /\ r.q = Trim(currentQuery)
                 /\ r.cont = "performTwoPhaseSearch" <=> r.q # << >>
    /\ \A req \in BagToSet(searchReqs), ok \in BOOLEAN :
         LET s == [State EXCEPT !.searchReqs = @ (-) One(req)]
         IN IF req.cont = "performTwoPhaseSearch"
              THEN LET t == TwoPhaseCachedEnds(s, req, ok)
                   IN IF ok
                        THEN /\ req.q # << >>
                             /\ Count(t, "send:live-search") = 1
                             /\ t.liveReqs = liveReqs (+) One(LiveOf(req))
                        ELSE C24_NoLive(t)
              ELSE C24_NoLive(CachedSearchEnds(s, req, ok))
    /\ \A live \in BagToSet(liveReqs), ok \in BOOLEAN :
         LET t == LiveSearchEnds([State EXCEPT !.liveReqs = @ (-) One(live)],
                                 live, ok)
         IN /\ t.liveReqs = liveReqs (-) One(live)
            /\ ~Has(t, "send:live-search")
            /\ \A r \in BagToSet(t.searchReqs (-) searchReqs) :
                 r.cont = "performCachedSearch"

\* The refresh that follows a live search is in flight and no live search
\* is outstanding.
C24_Witness ==
  /\ TwoPhase
  /\ liveReqs = EmptyBag
  /\ \E r \in BagToSet(searchReqs) : r.thenFinally

\* ---- C25 ----
\* A live search is outstanding: its fetch, or the refresh that its
\* then-handler awaits before the finally-handler runs.
C25_LiveOutstanding ==
  \/ liveReqs # EmptyBag
  \/ \E r \in BagToSet(searchReqs) : r.thenFinally

\* C25: isLiveSearching is true exactly when a live search is outstanding.
C25_FlagIffLiveOutstanding ==
  TwoPhase => (isLiveSearching <=> C25_LiveOutstanding)

\* ---- C26 ----
\* C26: in the first script of script.js, performSearch called for any page
\* while the trimmed query, the year and the institution are all empty sends
\* no request and sets no timer; it shows the prompt in the grid and in the
\* summary, hides the pagination and leaves currentPage and totalResults as
\* they were.
C26_PromptOnly ==
  Js /\ Trim(currentQuery) = << >> /\ yearFilter = ""
     /\ institutionFilter = ""
    => \A page \in 1..3 :
         LET t == performSearch_js(State, page)
         IN /\ Sends(t) = {}
            /\ t.searchReqs = searchReqs
            /\ t.timers = timers
            /\ t.display.kind = "empty"
            /\ t.display.msg = "Start typing"
            /\ t.display.summary = "Start typing"
            /\ ~t.pagination.shown
            /\ t.currentPage = currentPage
            /\ t.totalResults = totalResults
            /\ t.currentQuery = currentQuery

\* The prompt is shown after page 2 of a result set: currentPage and
\* totalResults are still those of that result set.
C26_Witness ==
  /\ Js
  /\ display.kind = "empty" /\ display.msg = "Start typing"
  /\ ~pagination.shown
  /\ currentPage = 2
  /\ totalResults > PAGE_SIZE_js

\* ---- C27 ----
\* C27: in the first script of script.js, an explicit search made while the
\* debounced call of a keystroke is pending executes performSearch(1) once
\* and leaves no debounced call pending, so that the input is searched once.
C27_ExplicitSupersedes ==
  Js =>
    \A timer \in DebounceTimers :
      now < timer.due
        => LET t == searchSubmit_js(State)
           IN /\ Count(t, "performSearch(1)") = 1
              /\ {x \in BagToSet(t.timers) : x.fn = "debouncedSearch"} = {}

\* ---- C28 ----
\* C28: no step makes lastHarvestTime smaller.
C28_LastHarvestMonotonic ==
  [][Smart => lastHarvestTime' >= lastHarvestTime]_vars

\* The part of C28 about harvests alone: no completion of a harvest makes
\* lastHarvestTime smaller.
C28_HarvestsMonotonic ==
  Smart =>
    \A h \in BagToSet(harvestReqs), result \in HarvestResults :
      HarvestCompleted(Ended(h), h, result).lastHarvestTime >= lastHarvestTime

\* ---- C29 ----
\* C29: in the first script of script.js at most one request of the load
\* sequence is in flight; the end of the auto-harvest request starts the
\* filters request if it succeeded and nothing if it failed; the end of the
\* filters request starts the health request, the end of the health request
\* the initial-records request, whether they succeeded or not; the end of
\* the initial-records request starts nothing.
C29_LoadSequence ==
  Js =>
    /\ loads \in {{}, {"auto-harvest"}, {"filters"}, {"health"}, {"records"}}
    /\ \A name \in loads, ok \in BOOLEAN :
         LET t == LoadStep_js(State, name, ok)
         IN /\ t.loads = CASE name = "auto-harvest" /\ ok -> {"filters"}
                           [] name = "auto-harvest" /\ ~ok -> {}
                           [] name = "filters" -> {"health"}
                           [] name = "health" -> {"records"}
                           [] OTHER -> {}
            /\ t.searchReqs = searchReqs
            /\ name = "auto-harvest" /\ ~ok
                 => t.display.summary = "Could not auto-harvest"
            /\ name # "records" /\ (name # "auto-harvest" \/ ok)
                 => t.display = display

\* The initial-records request is in flight after the filters request has
\* failed.
C29_Witness ==
  /\ Js
  /\ loads = {"records"}
  /\ ~filterOptions

\* ---- C30 ----
C30_Dispatched ==
  TwoPhase /\ \E h \in BagToSet(harvestReqs) : h.url = "harvest-now"

C30_TimerSet(s) ==
  \E timer \in BagToSet(s.timers) : timer.fn = "triggerBackgroundHarvest"

\* C30: in the two-phase script the harvest-now request, and the timer that
\* dispatches it, exist only when the initial-records, filters and health
\* loads have all ended; the end of a load dispatches no harvest-now request
\* and sets the timer exactly when it is the last of the three, whether it
\* succeeded or failed; and under the fair scheduling the harvest-now request
\* is eventually dispatched in every run, whichever loads failed.
C30_HarvestNowAfterLoads ==
  /\ [](TwoPhase =>
          /\ C30_Dispatched \/ C30_TimerSet(State) => loads \cap InitialLoads = {}
          /\ \A name \in loads \cap InitialLoads, ok \in BOOLEAN :
               LET t == LoadEnds_001(State, name, ok)
               IN /\ t.harvestReqs = harvestReqs
                  /\ C30_TimerSet(t) <=> loads \cap InitialLoads = {name}
                  /\ C30_TimerSet(t) =>
                       \A timer \in BagToSet(t.timers) :
                         timer.fn = "triggerBackgroundHarvest"
                           => timer.due = now + HARVEST_DELAY_001)
  /\ (TwoPhase => <>C30_Dispatched)

\* The harvest-now request is in flight after the initial-records load and
\* the filters load both failed.
C30_Witness ==
  /\ TwoPhase
  /\ C30_Dispatched
  /\ display.kind = "error" /\ display.msg = "initial"
  /\ ~filterOptions

\* ---- C31 ----
C31_Loading == Smart /\ display.kind = "loading"

C31_Settled == Smart /\ display.kind \in {"results", "noresults", "error", "idle"}

\* C31: in the smartSearch script the loading panel is shown only while a
\* search request is outstanding; the end of any outstanding search, with
\* any response or failure, leaves the results, the no-results, the error or
\* the idle panel, never the loading panel, and issues no new search; and
\* when every fetch of smartSearch settles, a loading panel is always
\* followed by one of those four panels.
C31_LoadingEnds ==
  /\ [](Smart =>
          /\ display.kind = "loading" => searchReqs # EmptyBag
          /\ \A req \in BagToSet(searchReqs), response \in SearchResponses :
               LET t == SearchEnds([State EXCEPT !.searchReqs = @ (-) One(req)],
                                   req, response)
               IN /\ t.display.kind \in {"results", "noresults", "error", "idle"}
                  /\ t.searchReqs = searchReqs (-) One(req))
  /\ (C31_Loading ~> C31_Settled)

\* The loading panel is shown after a user action, and the one search that
\* is outstanding is one that starts no harvest.
C31_Witness ==
  /\ Smart
  /\ display.kind = "loading"
  /\ \E req \in BagToSet(searchReqs) :
       searchReqs = One(req) /\ ~req.runHarvest
  /\ userActions > 0

====
